---- MODULE Spec2Model ----
(***************************************************************************)
(* Model of the stall-submission API (src/app/api/stalls/route.ts).        *)
(*                                                                         *)
(* Strings are sequences of characters (one-element strings, with the      *)
(* names TAB, DQUOTE and RSQUO standing for the tab, the straight double   *)
(* quote and the curly apostrophe).  Every await of a handler is one       *)
(* atomic step; requests in flight interleave between awaits.  The only    *)
(* shared state is the stall_submissions table.                            *)
(***************************************************************************)
EXTENDS Integers, Sequences, FiniteSets, TLC

\* ------------------------------------------------------------------ bounds
\* Requests the runtime handles concurrently.
MaxInFlight == 2
\* Requests started in one behaviour.
MaxRequests == 3
\* Requests started in one behaviour that handles them one at a time.
MaxSerialRequests == 4
\* Longest string handed to slugify on its own.
MaxLen == 4
\* Calls of slugify in a row, each on the result of the one before.
MaxCalls == 2

\* --------------------------------------------------------------- characters
LowerLetters == {"a", "b"}
UpperLetters == {"A", "B"}
DigitChars == {"0", "1", "2", "3", "4", "5", "6", "7", "8", "9"}
WhiteSpace == {" ", "TAB"}

\* String.prototype.toLowerCase, per character
ToLowerChar(c) ==
  CASE c = "A" -> "a"
    [] c = "B" -> "b"
    [] OTHER -> c

toLowerCase(s) == [k \in DOMAIN s |-> ToLowerChar(s[k])]

RECURSIVE TrimStart(_)
TrimStart(s) ==
  IF s # <<>> /\ Head(s) \in WhiteSpace THEN TrimStart(Tail(s)) ELSE s

RECURSIVE TrimEnd(_)
TrimEnd(s) ==
  IF s # <<>> /\ s[Len(s)] \in WhiteSpace
  THEN TrimEnd(SubSeq(s, 1, Len(s) - 1))
  ELSE s

\* String.prototype.trim
trim(s) == TrimEnd(TrimStart(s))

\* the character class ['"] of the first replace
IsQuote(c) == c \in {"'", "DQUOTE"}

\* .replace(/['"]/g, "")
StripQuotes(s) == SelectSeq(s, LAMBDA c : ~IsQuote(c))

\* the character class [a-z0-9]
IsSlugChar(c) == c \in LowerLetters \cup DigitChars

\* .replace(/[^a-z0-9]+/g, "-"): each maximal run outside [a-z0-9] becomes "-"
RECURSIVE HyphenateRuns(_)
HyphenateRuns(s) ==
  IF s = <<>> THEN <<>>
  ELSE IF IsSlugChar(Head(s)) THEN <<Head(s)>> \o HyphenateRuns(Tail(s))
  ELSE IF Len(s) > 1 /\ ~IsSlugChar(s[2]) THEN HyphenateRuns(Tail(s))
  ELSE <<"-">> \o HyphenateRuns(Tail(s))

\* .replace(/-+/g, "-")
RECURSIVE CollapseHyphens(_)
CollapseHyphens(s) ==
  IF s = <<>> THEN <<>>
  ELSE IF Head(s) = "-" /\ Len(s) > 1 /\ s[2] = "-" THEN CollapseHyphens(Tail(s))
  ELSE <<Head(s)>> \o CollapseHyphens(Tail(s))

\* .replace(/^-|-$/g, ""): one hyphen off the front, one off the end
StripEdgeHyphens(s) ==
  LET t == IF s # <<>> /\ Head(s) = "-" THEN Tail(s) ELSE s
  IN  IF t # <<>> /\ t[Len(t)] = "-" THEN SubSeq(t, 1, Len(t) - 1) ELSE t

\* slugify without its last replace
slugifyKeepEdges(input) ==
  CollapseHyphens(HyphenateRuns(StripQuotes(trim(toLowerCase(input)))))

\* slugify that strips the edge hyphens before it hyphenates the runs
slugifyEdgesFirst(input) ==
  CollapseHyphens(HyphenateRuns(StripEdgeHyphens(StripQuotes(trim(toLowerCase(input))))))

slugify(input) ==
  StripEdgeHyphens(CollapseHyphens(HyphenateRuns(StripQuotes(trim(toLowerCase(input))))))

\* decimal rendering of a positive integer, as the template literal does
DigitChar(d) ==
  CASE d = 0 -> "0" [] d = 1 -> "1" [] d = 2 -> "2" [] d = 3 -> "3" [] d = 4 -> "4"
    [] d = 5 -> "5" [] d = 6 -> "6" [] d = 7 -> "7" [] d = 8 -> "8" [] d = 9 -> "9"

RECURSIVE Decimal(_)
Decimal(n) == IF n < 10 THEN <<DigitChar(n)>> ELSE Decimal(n \div 10) \o <<DigitChar(n % 10)>>

\* `${baseSlug}-${i}`
Suffixed(baseSlug, i) == baseSlug \o <<"-">> \o Decimal(i)

\* ------------------------------------------------------------- request data
NULL == [null |-> TRUE]

REQUIRED_FIELDS ==
  <<"name", "category", "description", "bannerImage", "ownerName", "ownerPhone">>

RequiredSet == {REQUIRED_FIELDS[k] : k \in DOMAIN REQUIRED_FIELDS}

\* Falsy that takes an empty string for a value
FalsyAbsentOnly(payload, field) == field \notin DOMAIN payload

\* !payload[field]: the field is absent or is the empty string
Falsy(payload, field) == field \notin DOMAIN payload \/ payload[field] = <<>>

getMissingFields(payload) == SelectSeq(REQUIRED_FIELDS, LAMBDA field : Falsy(payload, field))

\* Stall names a request may carry: "Ab", "ab 2" and " !" (no slug)
Names == {<<"A", "b">>, <<"a", "b", " ", "2">>, <<" ", "!">>}

\* More names for the one-request-at-a-time runs: "a'b", the curly "a’b", and
\* "'-" (no slug)
MoreNames == Names \cup {<<"a", "'", "b">>, <<"a", "RSQUO", "b">>, <<"'", "-">>}

\* A JSON object over the required fields: a field is absent, empty or has one
\* of `vals` (the name: one of `names`)
BodiesOver(names, vals) ==
  UNION { { [f \in D |-> IF f = "name" THEN n ELSE v[f]] :
              n \in names \cup {<<>>}, v \in [RequiredSet -> vals \cup {<<>>}] } :
          D \in SUBSET RequiredSet }

\* a body that request.json() rejects
InvalidJSON == [invalid |-> TRUE]

\* The body with every required field present and the given name
FullBody(name) == [f \in RequiredSet |-> IF f = "name" THEN name ELSE <<"v">>]

\* Bodies of the interleaved runs: every field present, or one of name,
\* description, ownerPhone absent or empty
Bodies ==
  {FullBody(n) : n \in Names}
    \cup {[f \in RequiredSet \ {g} |-> FullBody(<<"A", "b">>)[f]] :
            g \in {"name", "description", "ownerPhone"}}
    \cup {[FullBody(<<"A", "b">>) EXCEPT ![g] = <<>>] :
            g \in {"name", "description", "ownerPhone"}}

\* Bodies of the one-request-at-a-time runs: any combination of absent, empty
\* and present fields
AllBodies == BodiesOver(MoreNames, {<<"v">>})

\* Authorization headers: none, a non-Bearer scheme, "Bearer " + token
NoHeader == NULL
Tokens == {"tA", "tb", "tc", "tn", "bad"}
Headers ==
  {NoHeader, [scheme |-> "Basic ", rest |-> "tA"], [scheme |-> "Bearer ", rest |-> ""]}
    \cup {[scheme |-> "Bearer ", rest |-> t] : t \in Tokens}

\* The identity provider: the email of the user a token belongs to (<<>>: the
\* user has no email); other tokens are rejected
AuthUsers ==
  [t \in {"tA", "tb", "tc", "tn"} |->
     CASE t = "tA" -> <<"A">> [] t = "tb" -> <<"b">> [] t = "tc" -> <<"c">> [] OTHER -> <<>>]

\* The two allow-list tables (never written by this program)
allowed_owners == {<<"a">>}
allowed_clubs == {<<"b">>}

Methods == {"GET", "POST", "PUT", "DELETE"}
Slots == 1..MaxInFlight

\* -------------------------------------------------------------------- state
VARIABLES
  rows,      \* the stall_submissions table: a set of rows
  nextId,    \* the id the store gives the next inserted row
  clock,     \* the created_at the store gives the next inserted row
  req,       \* per slot: the frame of the request it is handling
  started,   \* requests started so far
  response,  \* the response a handler has just returned (NoResponse: none)
  slugInput, \* the string a caller hands to slugify
  slugOutput \* what slugify returned, call after call

vars == <<rows, nextId, clock, req, started, response, slugInput, slugOutput>>

\* A slot that handles no request.  ownerErr and clubErr record whether the two
\* allow-list lookups of the request failed; touched, wrote, errs and interfered
\* record what the request has done to the table so far: a call on it made, a row
\* written, store calls that failed, and a write of another request landing
\* between this save's owner lookup and its own write.
IdleReq ==
  [pc |-> "idle", fn |-> "", token |-> "", email |-> <<>>, payload |-> NULL,
   baseSlug |-> <<>>, existing |-> NULL, candidate |-> <<>>, i |-> 0,
   ownerErr |-> FALSE, clubErr |-> FALSE,
   touched |-> FALSE, wrote |-> FALSE, errs |-> 0, interfered |-> FALSE]

NoResponse == [status |-> 0]

\* ------------------------------------------------------------ the store
OwnerRows(T, email) == {row \in T : row.owner_email = email}

\* LatestRow with the order ascending: the owner's oldest row
OldestRow(T, email) ==
  IF {row \in T : row.owner_email = email} = {} THEN NULL
  ELSE CHOOSE row \in {x \in T : x.owner_email = email} :
         \A other \in {x \in T : x.owner_email = email} :
           row.created_at <= other.created_at

\* .eq("owner_email", email).order("created_at", {ascending: false}).limit(1)
LatestRow(T, email) ==
  IF OwnerRows(T, email) = {} THEN NULL
  ELSE CHOOSE row \in OwnerRows(T, email) :
         \A other \in OwnerRows(T, email) : other.created_at <= row.created_at

\* maybeSingle that returns one of the rows when several match
maybeSingleAny(matched) ==
  IF matched = {} THEN [error |-> NULL, data |-> NULL]
  ELSE [error |-> NULL, data |-> CHOOSE row \in matched : TRUE]

\* .maybeSingle() on the rows a filter matched: no row is null, one row is that
\* row, more rows are an error
maybeSingle(matched) ==
  IF Cardinality(matched) > 1 THEN [error |-> [message |-> "multiple rows"], data |-> NULL]
  ELSE IF matched = {} THEN [error |-> NULL, data |-> NULL]
  ELSE [error |-> NULL, data |-> CHOOSE row \in matched : TRUE]

\* a store call that failed for a reason of the store's own
StoreError == [error |-> [message |-> "store error"], data |-> NULL]

\* .select("id, stall_slug")
SelectIdSlug(row) ==
  IF row = NULL THEN NULL ELSE [id |-> row.id, stall_slug |-> row.stall_slug]

\* .select("id, owner_email")
SelectIdOwner(row) ==
  IF row = NULL THEN NULL ELSE [id |-> row.id, owner_email |-> row.owner_email]

\* .select("id, payload, created_at, stall_slug")
SelectSubmission(row) ==
  IF row = NULL THEN NULL
  ELSE [id |-> row.id, payload |-> row.payload, created_at |-> row.created_at,
        stall_slug |-> row.stall_slug]

\* .from("stall_submissions").select("id, owner_email").eq("stall_slug", candidate)
SlugProbe(T, candidate) ==
  LET res == maybeSingle({row \in T : row.stall_slug = candidate})
  IN  [error |-> res.error, data |-> SelectIdOwner(res.data)]

\* .update({stall_slug, payload}).eq("id", id)
UpdateRows(T, id, slug, payload) ==
  { IF row.id = id THEN [row EXCEPT !.stall_slug = slug, !.payload = payload] ELSE row :
      row \in T }

\* .insert({owner_email, stall_slug, payload}): the store assigns id and created_at
InsertedRow(email, slug, payload) ==
  [id |-> nextId, owner_email |-> email, stall_slug |-> slug, payload |-> payload,
   created_at |-> clock]

\* DeleteRows without the owner filter
DeleteEveryRow(T, email) == {}

\* DeleteRows that removes only the owner's latest row
DeleteLatestOnly(T, email) ==
  T \ {row \in T : /\ row.owner_email = email
                   /\ \A other \in T : other.owner_email = email
                                        => other.created_at <= row.created_at}

\* .delete({count: "exact"}).eq("owner_email", email)
DeleteRows(T, email) == T \ OwnerRows(T, email)

\* ------------------------------------------------------------ bookkeeping
\* A write to the table lands inside the check-then-write window of every other
\* save that has done its owner lookup and not yet written.
Disturbed(q, T2) ==
  IF q.pc \in {"probe", "write"} /\ T2 # rows THEN [q EXCEPT !.interfered = TRUE] ELSE q

\* Request r goes on: its frame becomes f, the table T2
Continue(r, f, T2) ==
  /\ req' = [s \in Slots |-> IF s = r THEN f ELSE Disturbed(req[s], T2)]
  /\ rows' = T2
  /\ response' = NoResponse

\* Request r ends with NextResponse.json(body, {status}); f is its final frame
Respond(r, f, status, body, T2) ==
  /\ req' = [s \in Slots |-> IF s = r THEN IdleReq ELSE Disturbed(req[s], T2)]
  /\ rows' = T2
  /\ response' = [status |-> status, body |-> body, req |-> f]

Init ==
  /\ rows = {}
  /\ nextId = 1
  /\ clock = 1
  /\ req = [s \in Slots |-> IdleReq]
  /\ started = 0
  /\ response = NoResponse
  /\ slugInput = <<>>
  /\ slugOutput = <<>>

\* ------------------------------------------------------- getRequestContext
\* authHeader?.startsWith("Bearer ") ? authHeader.replace("Bearer ", "") : null
BearerToken(authHeader) ==
  IF authHeader # NULL /\ authHeader.scheme = "Bearer " THEN authHeader.rest ELSE ""

\* supabase.auth.getUser(token)
getUser(token, fails) ==
  IF fails THEN [error |-> [message |-> "auth error"], user |-> NULL]
  ELSE IF token \notin DOMAIN AuthUsers
  THEN [error |-> [message |-> "invalid JWT"], user |-> NULL]
  ELSE [error |-> NULL, user |-> [email |-> AuthUsers[token]]]

\* .from(list).select("email").eq("email", email).maybeSingle()
AllowlistLookup(list, email, fails) ==
  IF fails THEN StoreError
  ELSE LET res == maybeSingle({[email |-> e] : e \in {x \in list : x = email}})
       IN  [error |-> res.error, data |-> res.data]

\* GateStatus that answers 500 only when both lookups failed
GateStatusBothFail(ownerResult, clubResult) ==
  IF ownerResult.error # NULL /\ clubResult.error # NULL THEN 500
  ELSE IF ownerResult.data = NULL /\ clubResult.data = NULL THEN 403
  ELSE 200

\* GateStatus without the "Email not authorized" check
GateStatusNoDeny(ownerResult, clubResult) ==
  IF ownerResult.error # NULL \/ clubResult.error # NULL THEN 500 ELSE 200

\* The two checks after Promise.all: 500, 403, or 200 for "go on"
GateStatus(ownerResult, clubResult) ==
  IF ownerResult.error # NULL \/ clubResult.error # NULL THEN 500
  ELSE IF ownerResult.data = NULL /\ clubResult.data = NULL THEN 403
  ELSE 200

\* Where each handler goes once getRequestContext has returned {supabase, email}
AfterContext(fn) ==
  CASE fn = "GET" -> "fetch"
    [] fn = "DELETE" -> "delete"
    [] OTHER -> "parsePayload"

\* A request arrives and its handler calls getRequestContext: the header, the
\* token's user, the two allow-list lookups.  None of these reads or writes
\* the submissions table, so the call is one step.  A new request takes the
\* first free slot.
RequestContext(r, limit) ==
  /\ response = NoResponse
  /\ req[r].pc = "idle"
  /\ \A s \in Slots : s < r => req[s].pc # "idle"
  /\ started < limit
  /\ started' = started + 1
  /\ UNCHANGED <<nextId, clock, slugInput, slugOutput>>
  /\ \E method \in Methods, authHeader \in Headers :
       LET token == BearerToken(authHeader)
           f0 == [IdleReq EXCEPT !.fn = method, !.token = token]
       IN  IF token = ""
           THEN Respond(r, f0, 401, [error |-> "Missing auth token"], rows)
           ELSE \E userFails \in BOOLEAN :
             LET res == getUser(token, userFails)
                 email == IF res.user = NULL THEN <<>> ELSE toLowerCase(res.user.email)
                 f == [f0 EXCEPT !.email = email]
             IN  IF res.error # NULL \/ res.user = NULL
                 THEN Respond(r, f0, 401, [error |-> "Invalid auth token"], rows)
                 ELSE IF email = <<>>
                 THEN Respond(r, f, 403, [error |-> "Email not found"], rows)
                 ELSE \E ownerFails \in BOOLEAN, clubFails \in BOOLEAN :
                   LET ownerResult == AllowlistLookup(allowed_owners, email, ownerFails)
                       clubResult == AllowlistLookup(allowed_clubs, email, clubFails)
                       status == GateStatus(ownerResult, clubResult)
                       g == [f EXCEPT !.ownerErr = ownerResult.error # NULL,
                                      !.clubErr = clubResult.error # NULL]
                   IN  IF status = 500
                       THEN Respond(r, g, 500, [error |-> "Failed to verify email"], rows)
                       ELSE IF status = 403
                       THEN Respond(r, g, 403, [error |-> "Email not authorized"], rows)
                       ELSE Continue(r, [g EXCEPT !.pc = AfterContext(method)], rows)

\* ---------------------------------------------------------------- GET
Fetch(r) ==
  /\ response = NoResponse
  /\ req[r].pc = "fetch"
  /\ UNCHANGED <<nextId, clock, started, slugInput, slugOutput>>
  /\ \E fails \in BOOLEAN :
       LET f == [req[r] EXCEPT !.touched = TRUE, !.errs = @ + (IF fails THEN 1 ELSE 0)]
           res == IF fails THEN StoreError
                  ELSE [error |-> NULL,
                        data |-> SelectSubmission(LatestRow(rows, req[r].email))]
       IN  IF res.error # NULL
           THEN Respond(r, f, 500,
                        [error |-> "Failed to load submission",
                         details |-> res.error.message], rows)
           ELSE Respond(r, f, 200, [submission |-> res.data], rows)

\* ------------------------------------------------------------- DELETE
Delete(r) ==
  /\ response = NoResponse
  /\ req[r].pc = "delete"
  /\ UNCHANGED <<nextId, clock, started, slugInput, slugOutput>>
  /\ \E fails \in BOOLEAN :
       LET count == Cardinality(OwnerRows(rows, req[r].email))
           f == [req[r] EXCEPT !.touched = TRUE, !.errs = @ + (IF fails THEN 1 ELSE 0),
                               !.wrote = ~fails /\ count > 0]
       IN  IF fails
           THEN Respond(r, f, 500,
                        [error |-> "Failed to delete submission",
                         details |-> StoreError.error.message], rows)
           ELSE Respond(r, f, 200, [ok |-> TRUE, deleted |-> count],
                        DeleteRows(rows, req[r].email))

\* ------------------------------------------------------ POST, PUT: save
\* parsePayload, then the start of saveSubmission up to its first store call.
\* The body is read here: B is the set of bodies a request may carry.
ParsePayload(r, B) ==
  /\ response = NoResponse
  /\ req[r].pc = "parsePayload"
  /\ UNCHANGED <<nextId, clock, started, slugInput, slugOutput>>
  /\ \E body \in B \cup {InvalidJSON} :
       IF body = InvalidJSON
       THEN Respond(r, req[r], 400, [error |-> "Invalid JSON body"], rows)
       ELSE LET missingFields == getMissingFields(body)
                baseSlug == slugify(body["name"])
                p == [req[r] EXCEPT !.payload = body]
                f == [p EXCEPT !.fn = "saveSubmission", !.baseSlug = baseSlug,
                               !.pc = "existing"]
            IN  IF Len(missingFields) > 0
                THEN Respond(r, p, 400,
                             [error |-> "Missing required fields",
                              fields |-> missingFields], rows)
                ELSE IF baseSlug = <<>>
                THEN Respond(r, f, 400, [error |-> "Invalid stall name"], rows)
                ELSE Continue(r, f, rows)

\* SaveError that also reports the slug the save had resolved
SaveErrorWithSlug(text, err, frame) ==
  [error |-> text, details |-> err.message, slug |-> frame.candidate]

\* body of a 500 of saveSubmission
SaveError(text, err, frame) == [error |-> text, details |-> err.message]

\* Find existing submission for this owner (if any)
Existing(r) ==
  /\ response = NoResponse
  /\ req[r].pc = "existing"
  /\ UNCHANGED <<nextId, clock, started, slugInput, slugOutput>>
  /\ \E fails \in BOOLEAN :
       LET res == IF fails THEN StoreError
                  ELSE [error |-> NULL,
                        data |-> SelectIdSlug(LatestRow(rows, req[r].email))]
           f == [req[r] EXCEPT !.touched = TRUE, !.errs = @ + (IF fails THEN 1 ELSE 0),
                               !.existing = res.data, !.candidate = req[r].baseSlug,
                               !.i = 2, !.pc = "probe"]
       IN  IF res.error # NULL
           THEN Respond(r, f, 500,
                        SaveError("Failed to load existing submission", res.error, f),
                        rows)
           ELSE Continue(r, f, rows)

\* The two breaks of the probe loop: the slug is available, or it is held by
\* the row being updated
\* Accepts that takes the candidate whoever holds it
AcceptsAny(clash, existing) == TRUE

Accepts(clash, existing) ==
  \/ clash = NULL
  \/ existing # NULL /\ clash.id = existing.id

\* Probe whose loop tries the same candidate again, after a clash and after a
\* failed lookup alike
ProbeSameCandidate(r) ==
  /\ response = NoResponse
  /\ req[r].pc = "probe"
  /\ UNCHANGED <<nextId, clock, started, slugInput, slugOutput>>
  /\ \E fails \in BOOLEAN :
       LET res == IF fails THEN StoreError ELSE SlugProbe(rows, req[r].candidate)
       IN  IF res.error = NULL /\ Accepts(res.data, req[r].existing)
           THEN Continue(r, [req[r] EXCEPT !.pc = "write"], rows)
           ELSE Continue(r, req[r], rows)

\* One turn of the while (true) loop: one probe of the candidate
Probe(r) ==
  /\ response = NoResponse
  /\ req[r].pc = "probe"
  /\ UNCHANGED <<nextId, clock, started, slugInput, slugOutput>>
  /\ \E fails \in BOOLEAN :
       LET res == IF fails THEN StoreError ELSE SlugProbe(rows, req[r].candidate)
           f == [req[r] EXCEPT !.errs = @ + (IF res.error # NULL THEN 1 ELSE 0)]
       IN  IF res.error # NULL
           THEN Respond(r, f, 500, SaveError("Failed to validate slug", res.error, f), rows)
           ELSE IF Accepts(res.data, req[r].existing)
           THEN Continue(r, [f EXCEPT !.pc = "write"], rows)
           ELSE Continue(r, [f EXCEPT !.candidate = Suffixed(req[r].baseSlug, req[r].i),
                                      !.i = @ + 1], rows)

\* Written that checks the slug again: it writes nothing when a row of another
\* owner holds the candidate
WrittenIfSlugFree(T, f) ==
  IF \E row \in T : row.stall_slug = f.candidate /\ row.owner_email # f.email
  THEN T
  ELSE IF f.existing # NULL
  THEN UpdateRows(T, f.existing.id, f.candidate, f.payload)
  ELSE T \cup {InsertedRow(f.email, f.candidate, f.payload)}

\* Written that looks the owner up again: it updates the row the owner has at
\* the time of the write
WrittenUpsert(T, f) ==
  IF \E row \in T : row.owner_email = f.email
  THEN { IF row.owner_email = f.email
         THEN [row EXCEPT !.stall_slug = f.candidate, !.payload = f.payload]
         ELSE row : row \in T }
  ELSE T \cup {InsertedRow(f.email, f.candidate, f.payload)}

\* Written that inserts whether or not the owner has a row
WrittenByInsert(T, f) == T \cup {InsertedRow(f.email, f.candidate, f.payload)}

\* The table after the save's write: update if exists, else insert
Written(T, f) ==
  IF f.existing # NULL
  THEN UpdateRows(T, f.existing.id, f.candidate, f.payload)
  ELSE T \cup {InsertedRow(f.email, f.candidate, f.payload)}

\* The row the write returns through .select(...).maybeSingle()
Returned(T2, f) ==
  LET id == IF f.existing # NULL THEN f.existing.id ELSE nextId
  IN  SelectSubmission(maybeSingle({row \in T2 : row.id = id}).data)

Write(r) ==
  /\ response = NoResponse
  /\ req[r].pc = "write"
  /\ UNCHANGED <<started, slugInput, slugOutput>>
  /\ \E fails \in BOOLEAN :
       LET T2 == IF fails THEN rows ELSE Written(rows, req[r])
           f == [req[r] EXCEPT !.errs = @ + (IF fails THEN 1 ELSE 0),
                               !.wrote = T2 # rows]
           inserts == ~fails /\ req[r].existing = NULL
       IN  /\ nextId' = IF inserts THEN nextId + 1 ELSE nextId
           /\ clock' = IF inserts THEN clock + 1 ELSE clock
           /\ IF fails
              THEN Respond(r, f, 500,
                           SaveError("Failed to save submission", StoreError.error, f), rows)
              ELSE Respond(r, f, 200, [ok |-> TRUE, submission |-> Returned(T2, f)], T2)

\* The runtime sends the response the handler returned
Send ==
  /\ response # NoResponse
  /\ response' = NoResponse
  /\ UNCHANGED <<rows, nextId, clock, req, started, slugInput, slugOutput>>

\* --------------------------------------------------------- specifications
\* Requests are handled concurrently: any slot takes the next step
Next ==
  \/ Send
  \/ \E r \in Slots :
    \/ RequestContext(r, MaxRequests)
    \/ Fetch(r)
    \/ Delete(r)
    \/ ParsePayload(r, Bodies)
    \/ Existing(r)
    \/ Probe(r)
    \/ Write(r)

Spec == Init /\ [][Next]_vars

\* Requests are handled one at a time: a request starts only when no other is
\* in flight.  Bodies are any combination of absent, empty and present fields.
NextSerial ==
  \/ Send
  \/ \E r \in Slots :
    \/ (\A s \in Slots : req[s].pc = "idle") /\ RequestContext(r, MaxSerialRequests)
    \/ Fetch(r)
    \/ Delete(r)
    \/ ParsePayload(r, AllBodies)
    \/ Existing(r)
    \/ Probe(r)
    \/ Write(r)

SpecSerial == Init /\ [][NextSerial]_vars

\* The characters of the strings handed to slugify on its own: a lower-case
\* and an upper-case letter, a digit, a blank, a hyphen, a punctuation mark, the
\* two straight quotes and the curly apostrophe
Chars == {"a", "B", "2", " ", "-", "!", "'", "DQUOTE", "RSQUO"}

Strings(n) == UNION {[1..k -> Chars] : k \in 0..n}

\* slugify called on its own, on any string of at most MaxLen characters
InitSlugify ==
  /\ rows = {}
  /\ nextId = 1
  /\ clock = 1
  /\ req = [s \in Slots |-> IdleReq]
  /\ started = 0
  /\ response = NoResponse
  /\ slugInput \in Strings(MaxLen)
  /\ slugOutput = <<>>

\* One call of slugify: on the input first, then on what the last call returned
Slugify ==
  /\ Len(slugOutput) < MaxCalls
  /\ slugOutput' = Append(slugOutput,
                          slugify(IF slugOutput = <<>> THEN slugInput
                                  ELSE slugOutput[Len(slugOutput)]))
  /\ UNCHANGED <<rows, nextId, clock, req, started, response, slugInput>>

NextSlugify == Slugify

SpecSlugify == InitSlugify /\ [][NextSlugify]_vars

\* The next step of request r, whichever it is
HandlerStep(r) ==
  \/ Fetch(r)
  \/ Delete(r)
  \/ ParsePayload(r, Bodies)
  \/ Existing(r)
  \/ Probe(r)
  \/ Write(r)

\* Every store call returns and the runtime then resumes the handler that
\* awaits it; every response that was returned is sent
SpecFair ==
  /\ Init /\ [][Next]_vars
  /\ WF_vars(Send)
  /\ \A r \in Slots : WF_vars(HandlerStep(r))

\* ------------------------------------------------------------------ claims
\* A handler has just returned a response
Responded == response # NoResponse

\* The response is a 500 caused by a store call failing for a reason of the
\* store's own (not by a lookup matching several rows)
StoreFault(resp) ==
  "details" \in DOMAIN resp.body /\ resp.body.details = StoreError.error.message

\* The response comes from saveSubmission after its owner lookup
SaveRan(resp) == resp # NoResponse /\ resp.req.fn = "saveSubmission" /\ resp.req.touched

\* C1: in every reachable state of the submissions table, no two distinct rows
\* have the same slug.
C1_SlugsUnique ==
  \A x \in rows, y \in rows : x.stall_slug = y.stall_slug => x = y

\* The n-th candidate of the sequence b, b-2, b-3, ...
CandidateAt(b, n) == IF n = 1 THEN b ELSE Suffixed(b, n)

\* Candidate c is held by no row of T, or by the latest row of owner E
FreeOrOwnLatest(T, c, E) ==
  LET held == {row \in T : row.stall_slug = c}
  IN  held = {} \/ LatestRow(T, E) \in held

\* The first candidate of b, b-2, b-3, ... that is free or held by E's latest row
FirstFreeOrOwnLatest(T, b, E) ==
  LET ns == {n \in 1..(Cardinality(T) + 1) : FreeOrOwnLatest(T, CandidateAt(b, n), E)}
  IN  CandidateAt(b, CHOOSE n \in ns : \A m \in ns : n <= m)

\* C2: a save by owner E with base slug b that no other request interferes
\* with (and no store call of which fails for the store's own reasons) succeeds,
\* and the slug it writes is the first of b, b-2, b-3, ... that is held by no
\* row or by E's latest row.
C2_SlugResolution ==
  [][ (SaveRan(response') /\ ~response'.req.interfered /\ ~StoreFault(response'))
        => /\ response'.status = 200
           /\ response'.body.submission # NULL
           /\ response'.body.submission.stall_slug =
                FirstFreeOrOwnLatest(rows, response'.req.baseSlug, response'.req.email)
    ]_vars

\* C3: when an owner who has a submission saves again with the name of the
\* stored payload, the row's slug after the save is its slug before the save.
C3_ResaveKeepsSlug ==
  [][ (/\ SaveRan(response')
       /\ response'.status = 200
       /\ LatestRow(rows, response'.req.email) # NULL
       /\ LatestRow(rows, response'.req.email).payload["name"]
            = response'.req.payload["name"])
        => LatestRow(rows', response'.req.email).stall_slug
             = LatestRow(rows, response'.req.email).stall_slug
    ]_vars

\* The frame belongs to a request whose token the identity provider verified
\* and whose lowercased email is on one of the two allow-lists
PassedGate(f) ==
  /\ f.token \in DOMAIN AuthUsers
  /\ f.email = toLowerCase(AuthUsers[f.token])
  /\ f.email # <<>>
  /\ f.email \in allowed_owners \cup allowed_clubs

SaveRequest(resp) ==
  resp # NoResponse /\ resp.req.fn \in {"POST", "PUT", "saveSubmission"}

\* C5: a save by owner E that succeeds and that no other request interferes
\* with either rewrites the slug and payload of E's latest row, keeping its id,
\* owner and creation time and the number of rows, or, when E has no row, adds
\* one row with owner E, the resolved slug and the payload; every other row is
\* unchanged.
C5_CreateOrReplace ==
  [][ (SaveRan(response') /\ response'.status = 200 /\ ~response'.req.interfered)
        => LET f == response'.req
               mine == {row \in rows : row.owner_email = f.email}
           IN  IF mine # {}
               THEN \E old \in mine, new \in rows' :
                      /\ \A other \in mine : other.created_at <= old.created_at
                      /\ new.id = old.id
                      /\ new.owner_email = old.owner_email
                      /\ new.created_at = old.created_at
                      /\ new.stall_slug = f.candidate
                      /\ new.payload = f.payload
                      /\ rows' \ {new} = rows \ {old}
                      /\ Cardinality(rows') = Cardinality(rows)
               ELSE \E new \in rows' \ rows :
                      /\ rows' = rows \cup {new}
                      /\ new.owner_email = f.email
                      /\ new.stall_slug = f.candidate
                      /\ new.payload = f.payload
    ]_vars

\* An undisturbed save has just replaced the owner's row, changing its slug,
\* while another owner has a row
C5_Witness ==
  /\ SaveRan(response) /\ response.status = 200 /\ ~response.req.interfered
  /\ response.req.existing # NULL
  /\ response.req.existing.stall_slug # response.req.candidate
  /\ \E row \in rows : row.owner_email # response.req.email

\* C6: every save response with ok: true carries a non-null submission that is
\* the row the save wrote: a row of the table with the resolved slug and the
\* submitted payload.
C6_SaveReturnsRow ==
  (SaveRequest(response) /\ response.status = 200)
    => /\ response.body.ok
       /\ response.body.submission # NULL
       /\ \E row \in rows :
            /\ row.id = response.body.submission.id
            /\ row.stall_slug = response.req.candidate
            /\ row.payload = response.req.payload
            /\ response.body.submission.stall_slug = row.stall_slug
            /\ response.body.submission.payload = row.payload

\* The response ends a DELETE that reached its store call
DeleteRan(resp) == resp # NoResponse /\ resp.req.fn = "DELETE" /\ resp.req.touched

\* C7: a delete by owner E whose store call does not fail removes every row of
\* E and no other row, and answers ok: true with deleted = the number of rows
\* removed (0 when E has no row).
C7_DeleteAllOfOwner ==
  [][ (DeleteRan(response') /\ ~StoreFault(response'))
        => /\ response'.status = 200
           /\ response'.body.ok
           /\ rows' = {row \in rows : row.owner_email # response'.req.email}
           /\ response'.body.deleted = Cardinality(rows) - Cardinality(rows')
    ]_vars

\* A delete has just removed two rows of one owner
C7_Witness ==
  /\ DeleteRan(response) /\ response.status = 200
  /\ response.body.deleted = 2

\* The response ends a GET that reached its store call
FetchRan(resp) == resp # NoResponse /\ resp.req.fn = "GET" /\ resp.req.touched

\* C8: a fetch by owner E whose store call does not fail returns null when E
\* has no row and otherwise E's row with the greatest creation time, and leaves
\* the table unchanged.
C8_FetchLatest ==
  [][ (FetchRan(response') /\ ~StoreFault(response'))
        => LET mine == {row \in rows : row.owner_email = response'.req.email}
               got == response'.body.submission
           IN  /\ response'.status = 200
               /\ rows' = rows
               /\ mine = {} => got = NULL
               /\ mine # {} =>
                    \E row \in mine :
                      /\ \A other \in mine \ {row} : other.created_at < row.created_at
                      /\ got = [id |-> row.id, payload |-> row.payload,
                                created_at |-> row.created_at,
                                stall_slug |-> row.stall_slug]
    ]_vars

\* A fetch has just answered for an owner who has two rows
C8_Witness ==
  /\ FetchRan(response) /\ response.status = 200
  /\ response.body.submission # NULL
  /\ Cardinality({row \in rows : row.owner_email = response.req.email}) = 2

\* The required fields that the body lacks or has empty
MissingOf(body) == {field \in RequiredSet : field \notin DOMAIN body \/ body[field] = <<>>}

\* C9: an authorized save whose body lacks, or has empty, a required field gets
\* 400 with fields = exactly the missing required fields, and makes no call on
\* the submissions table.
C9_MissingFields ==
  /\ \A r \in Slots :
       req[r].pc \in {"existing", "probe", "write"} => MissingOf(req[r].payload) = {}
  /\ (/\ SaveRequest(response)
      /\ response.req.payload # NULL
      /\ MissingOf(response.req.payload) # {})
       => /\ response.status = 400
          /\ "fields" \in DOMAIN response.body
          /\ {response.body.fields[k] : k \in DOMAIN response.body.fields}
               = MissingOf(response.req.payload)
          /\ Len(response.body.fields) = Cardinality(MissingOf(response.req.payload))
          /\ ~response.req.touched /\ ~response.req.wrote

\* A save lacking ownerPhone and with an empty description was refused while
\* the table had a row
C9_Witness ==
  /\ SaveRequest(response) /\ response.status = 400
  /\ "fields" \in DOMAIN response.body
  /\ response.body.fields = <<"description", "ownerPhone">>
  /\ "ownerPhone" \notin DOMAIN response.req.payload
  /\ "description" \in DOMAIN response.req.payload
  /\ rows # {}

\* C10: a save that ends in a failure response has written nothing to the
\* table, its response carries neither a submission nor the resolved slug, and
\* no request goes on after a store call of its own failed.
C10_NoPartialSuccess ==
  /\ \A r \in Slots : req[r].errs = 0 /\ (req[r].wrote => req[r].pc = "idle")
  /\ (SaveRequest(response) /\ response.status # 200)
       => /\ ~response.req.wrote
          /\ DOMAIN response.body \subseteq {"error", "details", "fields"}
          /\ response.req.errs <= 1
  /\ SaveRan(response) => (response.status = 500 <=> response.req.errs = 1)

\* A save that had resolved a suffixed slug failed at its write
C10_Witness ==
  /\ SaveRequest(response) /\ response.status = 500
  /\ response.body.error = "Failed to save submission"
  /\ response.req.candidate # response.req.baseSlug
  /\ rows # {}

\* The frame belongs to a request whose token the identity provider verified
\* and whose user has an email: it reached the allow-list gate
ReachedGate(f) ==
  /\ f.token \in DOMAIN AuthUsers
  /\ f.email # <<>>
  /\ f.email = toLowerCase(AuthUsers[f.token])

\* C11: with a verified email, the gate answers 500 whenever one of the two
\* allow-list lookups failed, whatever the other returned; 403 only when both
\* succeeded and neither list has the email; and lets the request on exactly
\* when both succeeded and one of the lists has the email.
C11_AllowlistOutcome ==
  /\ \A r \in Slots :
       req[r].pc # "idle" =>
         /\ ~req[r].ownerErr /\ ~req[r].clubErr
         /\ req[r].email \in allowed_owners \cup allowed_clubs
  /\ (Responded /\ ReachedGate(response.req)) =>
       LET f == response.req
           listed == f.email \in allowed_owners \cup allowed_clubs
           refused500 == response.status = 500 /\ response.body.error = "Failed to verify email"
           refused403 == response.status = 403 /\ response.body.error = "Email not authorized"
       IN  /\ refused500 <=> (f.ownerErr \/ f.clubErr)
           /\ refused403 <=> (~f.ownerErr /\ ~f.clubErr /\ ~listed)
           /\ (~refused500 /\ ~refused403) <=> (~f.ownerErr /\ ~f.clubErr /\ listed)
           /\ (~refused500 /\ ~refused403) => f.pc # "idle"

\* The gate answered 500 for an email that is on the owners list, its lookup
\* there having succeeded, because the clubs lookup failed
C11_Witness ==
  /\ Responded /\ ReachedGate(response.req)
  /\ response.status = 500 /\ response.body.error = "Failed to verify email"
  /\ response.req.email \in allowed_owners
  /\ ~response.req.ownerErr /\ response.req.clubErr

\* The response is the error with this text
ErrorIs(resp, text) ==
  resp # NoResponse /\ "error" \in DOMAIN resp.body /\ resp.body.error = text

\* The name has no letter and no digit: nothing of it survives in a slug
NoSlugChar(name) ==
  \A k \in DOMAIN name : ToLowerChar(name[k]) \notin LowerLetters \cup DigitChars

\* C12: an authorized save whose name is non-empty but has nothing a slug
\* keeps (only whitespace, quotes, punctuation) gets 400 "Invalid stall name"
\* and makes no call on the submissions table; no save with such a name
\* reaches the owner lookup.
C12_InvalidName ==
  /\ \A r \in Slots :
       req[r].pc \in {"existing", "probe", "write"} =>
         /\ ~NoSlugChar(req[r].payload["name"])
         /\ req[r].baseSlug # <<>>
  /\ (/\ SaveRequest(response)
      /\ response.req.payload # NULL
      /\ MissingOf(response.req.payload) = {}
      /\ NoSlugChar(response.req.payload["name"]))
       => /\ response.status = 400
          /\ ErrorIs(response, "Invalid stall name")
          /\ ~response.req.touched /\ ~response.req.wrote
  /\ ErrorIs(response, "Invalid stall name")
       => NoSlugChar(response.req.payload["name"])

\* A save named "'-" was refused as an invalid name while the table had a row
C12_Witness ==
  /\ SaveRequest(response) /\ response.status = 400
  /\ ErrorIs(response, "Invalid stall name")
  /\ response.req.payload["name"] = <<"'", "-">>
  /\ rows # {}

\* C13: two saves by different owners whose names give the same slug b can
\* both probe b as free before either writes, and then both write it: the write
\* of a save uses the slug its probe accepted even when a row of another owner
\* has taken that slug since, so the table gets two rows of different owners
\* with slug b.
C13_DuplicateSlugRace ==
  [][ (/\ SaveRan(response') /\ response'.status = 200
       /\ response'.req.existing = NULL
       /\ \E row \in rows : /\ row.stall_slug = response'.req.candidate
                            /\ row.owner_email # response'.req.email)
        => \E x \in rows, y \in rows' \ rows :
             /\ x \in rows'
             /\ x.owner_email # y.owner_email
             /\ y.owner_email = response'.req.email
             /\ x.stall_slug = response'.req.candidate
             /\ y.stall_slug = response'.req.candidate
    ]_vars

\* Starting from the empty table, a save has just inserted its base slug b,
\* which its probe found free, next to a row of another owner that was inserted
\* with the same base slug b in between
C13_Witness ==
  /\ SaveRan(response) /\ response.status = 200
  /\ response.req.existing = NULL
  /\ response.req.candidate = response.req.baseSlug
  /\ response.req.interfered
  /\ \E x \in rows, y \in rows :
       /\ x.owner_email # y.owner_email
       /\ y.owner_email = response.req.email
       /\ y.id = response.body.submission.id
       /\ x.stall_slug = response.req.baseSlug
       /\ y.stall_slug = response.req.baseSlug
       /\ slugify(x.payload["name"]) = response.req.baseSlug
       /\ Cardinality(rows) = 2

\* C14: two saves by one owner E who has no row can both find no row of E
\* before either writes, and then both insert: a save whose owner lookup found
\* no row inserts even when E has got a row since, so E ends with two rows.
C14_DoubleInsertRace ==
  [][ (/\ SaveRan(response') /\ response'.status = 200
       /\ response'.req.existing = NULL
       /\ \E row \in rows : row.owner_email = response'.req.email)
        => /\ rows \subseteq rows'
           /\ \E new \in rows' \ rows :
                /\ rows' = rows \cup {new}
                /\ new.owner_email = response'.req.email
    ]_vars

\* Starting from the empty table, owner E has two rows, the second inserted by
\* a save whose owner lookup had found none
C14_Witness ==
  /\ SaveRan(response) /\ response.status = 200
  /\ response.req.existing = NULL
  /\ response.req.interfered
  /\ Cardinality(rows) = 2
  /\ \A row \in rows : row.owner_email = response.req.email

\* C15: every started request eventually produces its response, and the probe
\* loop of a save is always left, for the write or with the probe's error.
C15_Terminates ==
  \A r \in Slots :
    /\ (req[r].pc # "idle") ~> (req[r].pc = "idle")
    /\ (req[r].pc = "probe") ~> (req[r].pc \in {"write", "idle"})

\* A save has answered after its loop probed three candidates while another
\* request changed the table
C15_Witness ==
  /\ SaveRan(response)
  /\ response.status = 200
  /\ response.req.i > 3
  /\ response.req.interfered

\* C16: slugify applied to its own result returns that result unchanged, for
\* every input string; and each call's result is the one slugify gives for the
\* string the call was made on.
C16_Idempotent ==
  /\ \A k \in 2..Len(slugOutput) : slugOutput[k] = slugOutput[1]
  /\ slugOutput # <<>> => slugOutput[1] = slugify(slugInput)

\* slugify was called again on a slug it had made of a string that is not a
\* slug itself
C16_Witness ==
  /\ Len(slugOutput) >= 2
  /\ slugInput = <<" ", "B", "!", "2">>
  /\ slugOutput[1] = <<"b", "-", "2">>

\* the quote characters: straight and curly
AnyQuote(c) == c \in {"'", "DQUOTE", "RSQUO"}

AlphaNumeric(c) == ToLowerChar(c) \in LowerLetters \cup DigitChars

\* The letters and digits of s in lower case, joined where only quote
\* characters stand between two of them and with one hyphen where anything
\* else does; nothing before the first or after the last
RECURSIVE JoinedFrom(_, _, _)
JoinedFrom(s, acc, sep) ==
  IF s = <<>> THEN acc
  ELSE IF AlphaNumeric(Head(s))
  THEN JoinedFrom(Tail(s),
                  acc \o (IF sep /\ acc # <<>> THEN <<"-">> ELSE <<>>)
                      \o <<ToLowerChar(Head(s))>>,
                  FALSE)
  ELSE IF AnyQuote(Head(s)) THEN JoinedFrom(Tail(s), acc, sep)
  ELSE JoinedFrom(Tail(s), acc, TRUE)

\* C17: slugify removes every straight and every curly quote without putting
\* a hyphen in its place, turns every other run of characters outside [a-z0-9]
\* into one hyphen, and leaves no leading, trailing or repeated hyphen.
C17_QuotesStripped ==
  slugOutput # <<>> =>
    /\ slugOutput[1] = JoinedFrom(slugInput, <<>>, FALSE)
    /\ \A k \in DOMAIN slugOutput[1] :
         /\ slugOutput[1][k] \in LowerLetters \cup DigitChars \cup {"-"}
         /\ slugOutput[1][k] = "-" =>
              /\ k \notin {1, Len(slugOutput[1])}
              /\ slugOutput[1][k + 1] # "-"

\* C18: when requests are handled one at a time, starting from the empty
\* table, every owner has at most one row and no two rows have the same slug,
\* after any sequence of saves, fetches and deletes.
C18_SerialInvariants ==
  \A x \in rows, y \in rows :
    x # y => /\ x.owner_email # y.owner_email
             /\ x.stall_slug # y.stall_slug

\* Handled one after the other, two owners have saved names that give the same
\* base slug, and the table holds a row of each
C18_Witness ==
  /\ started >= 3
  /\ \E x \in rows, y \in rows :
       /\ x.owner_email # y.owner_email
       /\ slugify(x.payload["name"]) = slugify(y.payload["name"])
       /\ y.stall_slug = Suffixed(x.stall_slug, 2)

\* C19: a request authenticated as E inserts only rows owned by E, updates and
\* deletes only rows owned by E, and a fetch by E returns only a row owned by
\* E; no step changes the owner, the id or the creation time of a row.
C19_OwnerIsolation ==
  [][ /\ rows' # rows =>
           /\ response' # NoResponse
           /\ response'.req.token \in DOMAIN AuthUsers
           /\ response'.req.email = toLowerCase(AuthUsers[response'.req.token])
      /\ \A x \in rows :
           /\ \A y \in rows' :
                y.id = x.id => /\ y.owner_email = x.owner_email
                               /\ y.created_at = x.created_at
           /\ x \notin rows' => x.owner_email = response'.req.email
      /\ \A y \in rows' :
           (\A x \in rows : x.id # y.id) => y.owner_email = response'.req.email
      /\ (FetchRan(response') /\ response'.status = 200
          /\ response'.body.submission # NULL)
           => \E x \in rows : /\ x.id = response'.body.submission.id
                              /\ x.owner_email = response'.req.email
    ]_vars

\* An owner who has a row has just deleted it, or saved over it, while the
\* table holds a row of another owner, which is still there
C19_Witness ==
  /\ Responded /\ response.status = 200
  /\ response.req.wrote
  /\ response.req.fn = "DELETE" \/ response.req.existing # NULL
  /\ \E row \in rows : row.owner_email # response.req.email

\* the rows that hold slug s
Holders(T, s) == {row \in T : row.stall_slug = s}

\* This step is a turn of the probe loop of request r
ProbeStepOf(r) ==
  /\ req[r].pc = "probe"
  /\ req'[r].pc # "probe" \/ req'[r].i # req[r].i

\* A probe of a candidate that two or more rows hold ends the save with status
\* 500 and writes nothing
LockedOut ==
  \A r \in Slots :
    (ProbeStepOf(r) /\ Cardinality(Holders(rows, req[r].candidate)) >= 2)
      => /\ response' # NoResponse
         /\ response'.status = 500
         /\ ErrorIs(response', "Failed to validate slug")
         /\ response'.req.candidate = req[r].candidate
         /\ ~response'.req.wrote
         /\ rows' = rows

\* This step takes slug s from two or more rows down to at most one
Released(s) ==
  /\ Cardinality(Holders(rows, s)) >= 2
  /\ Cardinality(Holders(rows', s)) <= 1

\* This step is a save that moves its owner's row from slug s to another slug
Renamed(s) ==
  /\ SaveRan(response') /\ response'.status = 200
  /\ response'.req.existing # NULL
  /\ response'.req.candidate # s
  /\ \E x \in Holders(rows, s) : /\ x.id = response'.req.existing.id
                                 /\ x.owner_email = response'.req.email

====
